---- MODULE Spec2Model ----
(***************************************************************************)
(* Book catalogue of recomemento-api-go: the books table reached through   *)
(* GORM/SQLite, the bookRepository of models/book.go and the HTTP handlers *)
(* of handlers/book_handler.go that the properties below are about.        *)
(***************************************************************************)
EXTENDS Integers, Sequences, FiniteSets, TLC

\* Largest id the model lets the store hand out or accept.
MaxId == 2

----------------------------------------------------------------------------
\* Values

\* The five string columns of a book (models/book.go, Book).
Keys == {"title", "author", "genre", "purpose", "description"}

Nil == "nil"
ErrRecordNotFound == "record not found"
ErrConstraint == "UNIQUE constraint failed: books.id"
\* The error of a store call that could not read or write the database.
ErrStorage == "database error"

\* A Book value: the primary key and the five columns.
Book(id, title, author, genre, purpose, description) ==
  [id |-> id, title |-> title, author |-> author, genre |-> genre,
   purpose |-> purpose, description |-> description]

\* Books a caller hands to Create (ID still unset).
SampleBooks ==
  { Book(0, "T1", "A1", "Fiction", "Entertainment", "D1"),
    Book(0, "T2", "A2", "fiction", "entertainment", "D1") }

\* Values a caller puts in an updates map, per column.
UpdateValues ==
  { Book(0, "T2", "A2", "fiction", "entertainment", "D1") }

\* The updates maps: any subset of the columns, each with a value.
UpdateMaps ==
  { [k \in S |-> v[k]] : S \in SUBSET Keys, v \in UpdateValues }

\* Every combination of two values per column, for the single-row study of
\* Update.
RowValues ==
  [title : {"T1", "T2"}, author : {"A1", "A2"},
   genre : {"Fiction", "fiction"}, purpose : {"Entertainment", "entertainment"},
   description : {"D1", "D2"}]

\* Its updates maps: any subset of the columns, set to the first or to the
\* second value of each.
AllUpdateMaps ==
  { [k \in S |-> v[k]] : S \in SUBSET Keys,
       v \in { Book(0, "T1", "A1", "Fiction", "Entertainment", "D1"),
               Book(0, "T2", "A2", "fiction", "entertainment", "D2") } }

\* Updates maps that name the primary key: the map type of Update
\* (map[string]interface{}) takes any column, "id" included.
IdUpdateMaps ==
  { [id |-> i] : i \in 1..MaxId }
  \cup { [id |-> i, title |-> "T2"] : i \in 1..MaxId }


EmptyMap == [k \in {} |-> ""]

Max(a, b) == IF a >= b THEN a ELSE b

----------------------------------------------------------------------------
\* The books table behind gorm.DB

\* An empty database after AutoMigrate: no rows, sqlite_sequence at 0.
\* fault is the condition of the connection during one operation: 0 when
\* every store call goes through, n when the n-th store call the operation
\* makes fails.
EmptyDB == [books |-> {}, seq |-> 0, fault |-> 0]

Fails(d, n) == d.fault = n

\* The connection once the operation is over.
Healed(d) == [d EXCEPT !.fault = 0]

Ids(rows) == {r.id : r \in rows}

MaxRowId(rows) == IF rows = {} THEN 0
                  ELSE CHOOSE m \in Ids(rows) : \A i \in Ids(rows) : i <= m

\* NextId of a rowid table without AUTOINCREMENT: one more than the largest
\* id now in the table.
NextId_MaxRow(d) == MaxRowId(d.books) + 1

\* id integer PRIMARY KEY AUTOINCREMENT: one more than the largest id the
\* table has ever held.
NextId(d) == Max(d.seq, MaxRowId(d.books)) + 1

\* ORDER BY id: the rows as a sequence in ascending id order.
RECURSIVE OrderById(_)
OrderById(rows) ==
  IF rows = {} THEN <<>>
  ELSE LET r == CHOOSE x \in rows : \A y \in rows : x.id <= y.id
       IN <<r>> \o OrderById(rows \ {r})

\* First under ORDER BY id DESC.
First_LargestId(rows) ==
  IF rows = {} THEN [book |-> <<>>, err |-> ErrRecordNotFound]
  ELSE [book |-> <<OrderById(rows)[Cardinality(rows)]>>, err |-> Nil]

\* db.First over the rows a WHERE clause selected: ORDER BY id LIMIT 1,
\* ErrRecordNotFound when no row qualifies. book is the pointer returned:
\* <<>> for nil, <<b>> for &b.
First(rows) ==
  IF rows = {} THEN [book |-> <<>>, err |-> ErrRecordNotFound]
  ELSE [book |-> <<OrderById(rows)[1]>>, err |-> Nil]

\* WHERE id = ?
WhereId(rows, id) == {r \in rows : r.id = id}

Lower(str) ==
  CASE str = "Fiction" -> "fiction"
    [] str = "Entertainment" -> "entertainment"
    [] OTHER -> str

\* WhereGenrePurpose under a case-insensitive collation.
WhereGenrePurpose_NoCase(rows, genre, purpose) ==
  {r \in rows : Lower(r.genre) = Lower(genre)
                /\ Lower(r.purpose) = Lower(purpose)}

\* WHERE genre = ? AND purpose = ? (SQLite BINARY collation: exact match)
WhereGenrePurpose(rows, genre, purpose) ==
  {r \in rows : r.genre = genre /\ r.purpose = purpose}

\* Assign that writes the whole struct: a column the map does not name is
\* set to the empty string.
Assign_ZeroAbsent(b, updates) ==
  [f \in DOMAIN b |-> IF f \in DOMAIN updates THEN updates[f]
                      ELSE IF f = "id" THEN b[f] ELSE ""]

\* Updates(map): the columns named by the map take the map's values.
Assign(b, updates) ==
  [f \in DOMAIN b |-> IF f \in DOMAIN updates THEN updates[f] ELSE b[f]]

----------------------------------------------------------------------------
\* bookRepository

\* Create: INSERT; a zero ID is assigned by the store, a preset one is kept
\* and must not collide with the primary key of a stored row.
Create(d, book) ==
  LET id  == IF book.id = 0 THEN NextId(d) ELSE book.id
      row == [book EXCEPT !.id = id]
  IN IF Fails(d, 1) THEN [db |-> d, book |-> book, err |-> ErrStorage]
     ELSE IF id \in Ids(d.books)
       THEN [db |-> d, book |-> book, err |-> ErrConstraint]
     ELSE [db |-> [d EXCEPT !.books = d.books \cup {row},
                            !.seq = Max(d.seq, id)],
           book |-> row, err |-> Nil]

\* GetAll that stops after the first row.
GetAll_FirstOnly(d) ==
  [books |-> IF d.books = {} THEN <<>> ELSE <<OrderById(d.books)[1]>>,
   err |-> Nil]

GetAll(d) ==
  IF Fails(d, 1) THEN [books |-> <<>>, err |-> ErrStorage]
  ELSE [books |-> OrderById(d.books), err |-> Nil]

\* GetByID whose query lost its condition on id.
GetByID_NoCondition(d, id) == First(d.books)

\* db.First(&book, id), the first store call of GetByID, Update and Delete.
Load(d, id) ==
  IF Fails(d, 1) THEN [book |-> <<>>, err |-> ErrStorage]
  ELSE First(WhereId(d.books, id))

GetByID(d, id) == Load(d, id)

\* Update that does not load the row first: UPDATE ... WHERE id = ? succeeds
\* also when it touches no row.
Update_NoLoad(d, id, updates) ==
  [db |-> [d EXCEPT !.books = {IF r.id = id THEN Assign(r, updates) ELSE r
                                 : r \in d.books}],
   book |-> <<Assign(Book(id, "", "", "", "", ""), updates)>>, err |-> Nil]

\* Update that saves: a row that db.First does not find is inserted with
\* the map's values before the error is returned.
Update_InsertsMissing(d, id, updates) ==
  LET f == First(WhereId(d.books, id))
  IN IF f.err # Nil
       THEN [db |-> [d EXCEPT !.books =
                       d.books \cup {Assign(Book(id, "", "", "", "", ""), updates)}],
             book |-> <<>>, err |-> f.err]
     ELSE [db |-> [d EXCEPT !.books = {IF r.id = id THEN Assign(r, updates)
                                         ELSE r : r \in d.books}],
           book |-> <<Assign(f.book[1], updates)>>, err |-> Nil]

\* Update that refuses an empty updates map.
Update_RejectEmpty(d, id, updates) ==
  LET f == First(WhereId(d.books, id))
  IN IF f.err # Nil THEN [db |-> d, book |-> <<>>, err |-> f.err]
     ELSE IF DOMAIN updates = {}
       THEN [db |-> d, book |-> <<>>, err |-> "no fields to update"]
     ELSE [db |-> [d EXCEPT !.books =
                     {IF r.id = id THEN Assign(r, updates) ELSE r
                        : r \in d.books}],
           book |-> <<Assign(f.book[1], updates)>>, err |-> Nil]

\* ExecUpdates that saves the loaded struct: every column of the row takes
\* the value the struct has after the assignments.
ExecUpdates_WholeStruct(d, book, updates) ==
  LET rows == {IF r.id = book.id THEN Assign(book, updates) ELSE r
                 : r \in d.books}
  IN IF DOMAIN updates = {} THEN [db |-> d, book |-> <<book>>, err |-> Nil]
     ELSE IF Fails(d, 2) THEN [db |-> d, book |-> <<>>, err |-> ErrStorage]
     ELSE [db |-> [d EXCEPT !.books = rows],
           book |-> <<Assign(book, updates)>>, err |-> Nil]

\* db.Model(&book).Updates(updates), the second store call of Update:
\* UPDATE books SET <the map's columns> WHERE id = book.ID, and the same
\* assignments to the loaded struct. No statement is run for an empty map;
\* a statement that matches no row is no error; a new id that another row
\* holds violates the primary key.
ExecUpdates(d, book, updates) ==
  LET hit  == WhereId(d.books, book.id)
      rows == {IF r.id = book.id THEN Assign(r, updates) ELSE r : r \in d.books}
  IN IF DOMAIN updates = {} THEN [db |-> d, book |-> <<book>>, err |-> Nil]
     ELSE IF Fails(d, 2) THEN [db |-> d, book |-> <<>>, err |-> ErrStorage]
     ELSE IF /\ "id" \in DOMAIN updates
             /\ hit # {}
             /\ updates["id"] \in Ids(d.books \ hit)
       THEN [db |-> d, book |-> <<>>, err |-> ErrConstraint]
     ELSE [db |-> [d EXCEPT !.books = rows],
           book |-> <<Assign(book, updates)>>, err |-> Nil]

Update(d, id, updates) ==
  LET f == Load(d, id)
  IN IF f.err # Nil THEN [db |-> d, book |-> <<>>, err |-> f.err]
     ELSE ExecUpdates(d, f.book[1], updates)

\* Delete that marks the row instead of removing it: the row stays.
Delete_KeepsRow(d, id) ==
  LET f == First(WhereId(d.books, id))
  IN IF f.err # Nil THEN [db |-> d, book |-> <<>>, err |-> f.err]
     ELSE [db |-> d, book |-> f.book, err |-> Nil]

\* Delete that hands back a fresh Book carrying only the id.
Delete_ReturnsZero(d, id) ==
  LET f == First(WhereId(d.books, id))
  IN IF f.err # Nil THEN [db |-> d, book |-> <<>>, err |-> f.err]
     ELSE [db |-> [d EXCEPT !.books = {r \in d.books : r.id # id}],
           book |-> <<Book(id, "", "", "", "", "")>>, err |-> Nil]

\* Delete whose DELETE statement lost its WHERE clause.
Delete_AllRows(d, id) ==
  LET f == First(WhereId(d.books, id))
  IN IF f.err # Nil THEN [db |-> d, book |-> <<>>, err |-> f.err]
     ELSE [db |-> [d EXCEPT !.books = {}], book |-> f.book, err |-> Nil]

\* db.Delete(&book), the second store call of Delete: DELETE FROM books
\* WHERE id = book.ID; a statement that matches no row is no error.
ExecDelete(d, book) ==
  IF Fails(d, 2) THEN [db |-> d, book |-> <<>>, err |-> ErrStorage]
  ELSE [db |-> [d EXCEPT !.books = {r \in d.books : r.id # book.id}],
        book |-> <<book>>, err |-> Nil]

Delete(d, id) ==
  LET f == Load(d, id)
  IN IF f.err # Nil THEN [db |-> d, book |-> <<>>, err |-> f.err]
     ELSE ExecDelete(d, f.book[1])

FindByGenreAndPurpose(d, genre, purpose) ==
  IF Fails(d, 1) THEN [book |-> <<>>, err |-> ErrStorage]
  ELSE First(WhereGenrePurpose(d.books, genre, purpose))

----------------------------------------------------------------------------
\* BookHandler

DigitValue(c) ==
  CASE c = "0" -> 0 [] c = "1" -> 1 [] c = "2" -> 2 [] c = "3" -> 3
    [] c = "4" -> 4 [] c = "5" -> 5 [] c = "6" -> 6 [] c = "7" -> 7
    [] c = "8" -> 8 [] c = "9" -> 9 [] OTHER -> -1

RECURSIVE DecimalValue(_)
DecimalValue(s) ==
  IF s = <<>> THEN 0
  ELSE 10 * DecimalValue(SubSeq(s, 1, Len(s) - 1)) + DigitValue(s[Len(s)])

\* The digits of 2^32 - 1.
MaxUint32 == <<4, 2, 9, 4, 9, 6, 7, 2, 9, 5>>

\* s without its leading zeros.
RECURSIVE TrimZeros(_)
TrimZeros(s) ==
  IF s # <<>> /\ s[1] = "0" THEN TrimZeros(Tail(s)) ELSE s

\* The digit string s (no leading zero) denotes a number above 2^32 - 1.
RECURSIVE Above(_, _)
Above(s, m) ==
  IF s = <<>> THEN FALSE
  ELSE IF DigitValue(s[1]) # m[1] THEN DigitValue(s[1]) > m[1]
  ELSE Above(Tail(s), Tail(m))

OutOfRange(s) ==
  LET t == TrimZeros(s)
  IN Len(t) > Len(MaxUint32) \/ (Len(t) = Len(MaxUint32) /\ Above(t, MaxUint32))

\* strconv.ParseUint(s, 10, 32): s is the path parameter as a sequence of
\* characters; no sign, no blanks, at least one digit, at most 2^32 - 1.
ParseUint(s) ==
  IF s = <<>> \/ \E i \in 1..Len(s) : DigitValue(s[i]) < 0
    THEN [n |-> 0, err |-> "invalid syntax"]
  ELSE IF OutOfRange(s)
    THEN [n |-> 0, err |-> "value out of range"]
  ELSE [n |-> DecimalValue(s), err |-> Nil]

DigitChar(n) == <<"0", "1", "2", "3", "4", "5", "6", "7", "8", "9">>[n + 1]

\* fmt.Sprintf("/books/%d", id): the decimal digits of id.
RECURSIVE FormatUint(_)
FormatUint(n) ==
  IF n < 10 THEN <<DigitChar(n)>>
  ELSE FormatUint(n \div 10) \o <<DigitChar(n % 10)>>

\* c.ShouldBindJSON(&req) for CreateBookRequest: the body must be JSON and
\* every `binding:"required"` member present and non-empty ("" stands for a
\* member that is missing or empty). Members the struct does not declare,
\* such as "id", are dropped.
BindCreate(req) ==
  IF ~req.json THEN "invalid character"
  ELSE IF \E k \in Keys : req[k] = "" THEN "required"
  ELSE Nil

BookResponse(book) ==
  Book(book.id, book.title, book.author, book.genre, book.purpose,
       book.description)

\* What a handler leaves behind: the database, the status and body written
\* with c.JSON (an ErrorResponse's error and message, or the BookResponses),
\* and the repository method it called with the error that method returned.
Response(d, status, error, message, out, calls) ==
  [db |-> d, status |-> status, error |-> error, message |-> message,
   out |-> out, calls |-> calls]

\* A call h.bookRepo.<method>(args...) that returned err.
CalledWith(method, args, err) ==
  <<[method |-> method, args |-> args, err |-> err]>>

Called(method, err) == CalledWith(method, <<>>, err)

InvalidId(d) ==
  Response(d, 400, "Invalid ID", "ID must be a valid number", <<>>, <<>>)

BookNotFound(d, calls) ==
  Response(d, 404, "Book not found", "The requested book could not be found",
           <<>>, calls)

\* CreateBook that copies the body's "id" into the Book it creates.
CreateBook_ClientId(d, req) ==
  IF BindCreate(req) # Nil
    THEN Response(d, 400, "Invalid request", BindCreate(req), <<>>, <<>>)
  ELSE LET book == Book(req.id, req.title, req.author, req.genre,
                        req.purpose, req.description)
           r == Create(d, book)
       IN IF r.err # Nil
            THEN Response(r.db, 500, "Failed to create book", r.err, <<>>,
                          Called("Create", r.err))
            ELSE Response(r.db, 201, "", "", <<BookResponse(r.book)>>,
                          Called("Create", r.err))

CreateBook(d, req) ==
  IF BindCreate(req) # Nil
    THEN Response(d, 400, "Invalid request", BindCreate(req), <<>>, <<>>)
  ELSE LET book == Book(0, req.title, req.author, req.genre, req.purpose,
                        req.description)
           r == Create(d, book)
       IN IF r.err # Nil
            THEN Response(r.db, 500, "Failed to create book", r.err, <<>>,
                          Called("Create", r.err))
            ELSE Response(r.db, 201, "", "", <<BookResponse(r.book)>>,
                          Called("Create", r.err))

GetBookByID(d, idStr) ==
  LET p == ParseUint(idStr)
  IN IF p.err # Nil THEN InvalidId(d)
     ELSE LET r == GetByID(d, p.n)
          IN IF r.err # Nil THEN BookNotFound(d, Called("GetByID", r.err))
             ELSE Response(d, 200, "", "", <<BookResponse(r.book[1])>>,
                           Called("GetByID", r.err))

\* GetAllBooks that answers 200 with what GetAll handed back, error or not.
GetAllBooks_AlwaysOk(d) ==
  LET r == GetAll(d)
  IN Response(d, 200, "", "",
              [i \in 1..Len(r.books) |-> BookResponse(r.books[i])],
              Called("GetAll", r.err))

GetAllBooks(d) ==
  LET r == GetAll(d)
  IN IF r.err # Nil
       THEN Response(d, 500, "Failed to get books", r.err, <<>>,
                     Called("GetAll", r.err))
     ELSE Response(d, 200, "", "",
                   [i \in 1..Len(r.books) |-> BookResponse(r.books[i])],
                   Called("GetAll", r.err))

\* c.ShouldBindJSON(&req) for UpdateBookRequest: the body must be JSON; no
\* member carries a binding tag, so any string, the empty one included, binds.
BindUpdate(req) == IF ~req.json THEN "invalid character" ELSE Nil

\* UpdatesOf that takes a null member for the empty string.
UpdatesOf_NullAsEmpty(req) ==
  [k \in DOMAIN req.body \cap Keys |->
     IF req.body[k] = <<>> THEN "" ELSE req.body[k][1]]

\* The updates map UpdateBook builds: one key for each of the five members
\* whose pointer is non-nil, that is, present in the body and not null
\* (body[k] is <<>> for null and <<v>> for the value v); members the struct
\* does not declare are dropped.
UpdatesOf(req) ==
  [k \in {m \in DOMAIN req.body \cap Keys : req.body[m] # <<>>} |->
     req.body[k][1]]

\* UpdateBook that binds the body before it parses the id.
UpdateBook_BindFirst(d, idStr, req) ==
  LET p == ParseUint(idStr)
  IN IF BindUpdate(req) # Nil
       THEN Response(d, 400, "Invalid request", BindUpdate(req), <<>>, <<>>)
     ELSE IF p.err # Nil THEN InvalidId(d)
     ELSE LET r == Update(d, p.n, UpdatesOf(req))
          IN IF r.err # Nil
               THEN BookNotFound(r.db, CalledWith("Update",
                                                  <<p.n, UpdatesOf(req)>>, r.err))
             ELSE Response(r.db, 200, "", "", <<BookResponse(r.book[1])>>,
                           CalledWith("Update", <<p.n, UpdatesOf(req)>>, r.err))

UpdateBook(d, idStr, req) ==
  LET p == ParseUint(idStr)
  IN IF p.err # Nil THEN InvalidId(d)
     ELSE IF BindUpdate(req) # Nil
       THEN Response(d, 400, "Invalid request", BindUpdate(req), <<>>, <<>>)
     ELSE LET r == Update(d, p.n, UpdatesOf(req))
          IN IF r.err # Nil
               THEN BookNotFound(r.db, CalledWith("Update",
                                                  <<p.n, UpdatesOf(req)>>, r.err))
             ELSE Response(r.db, 200, "", "", <<BookResponse(r.book[1])>>,
                           CalledWith("Update", <<p.n, UpdatesOf(req)>>, r.err))

DeleteBook(d, idStr) ==
  LET p == ParseUint(idStr)
  IN IF p.err # Nil THEN InvalidId(d)
     ELSE LET r == Delete(d, p.n)
          IN IF r.err # Nil THEN BookNotFound(r.db, Called("Delete", r.err))
             ELSE Response(r.db, 200, "", "", <<BookResponse(r.book[1])>>,
                           Called("Delete", r.err))

\* c.ShouldBindJSON(&req) for RecommendBookRequest: genre and purpose are
\* `binding:"required"` ("" stands for a member that is missing or empty).
\* BindRecommend with purpose not required.
BindRecommend_GenreOnly(req) ==
  IF ~req.json THEN "invalid character"
  ELSE IF req.genre = "" THEN "required"
  ELSE Nil

BindRecommend(req) ==
  IF ~req.json THEN "invalid character"
  ELSE IF req.genre = "" \/ req.purpose = "" THEN "required"
  ELSE Nil

\* RecommendBook that answers a missing match like a missing book.
RecommendBook_BookNotFound(d, req) ==
  IF BindRecommend(req) # Nil
    THEN Response(d, 400, "Invalid request", BindRecommend(req), <<>>, <<>>)
  ELSE LET r == FindByGenreAndPurpose(d, req.genre, req.purpose)
       IN IF r.err # Nil
            THEN BookNotFound(d, Called("FindByGenreAndPurpose", r.err))
          ELSE Response(d, 200, "", "", <<BookResponse(r.book[1])>>,
                        Called("FindByGenreAndPurpose", r.err))

RecommendBook(d, req) ==
  IF BindRecommend(req) # Nil
    THEN Response(d, 400, "Invalid request", BindRecommend(req), <<>>, <<>>)
  ELSE LET r == FindByGenreAndPurpose(d, req.genre, req.purpose)
       IN IF r.err # Nil
            THEN Response(d, 404, "No recommendation found",
                          "No book found matching the criteria", <<>>,
                          Called("FindByGenreAndPurpose", r.err))
          ELSE Response(d, 200, "", "", <<BookResponse(r.book[1])>>,
                        Called("FindByGenreAndPurpose", r.err))

----------------------------------------------------------------------------
\* database.SeedDatabase

\* The baseline books of SeedDatabase, in the order of its loop.
SeedBooks ==
  << Book(0, "The Great Gatsby", "F. Scott Fitzgerald", "Fiction",
          "Entertainment",
          "A story of the fabulously wealthy Jay Gatsby and his love for the beautiful Daisy Buchanan."),
     Book(0, "Clean Code", "Robert C. Martin", "Technology", "Learning",
          "A handbook of agile software craftsmanship that teaches principles of writing clean, readable code."),
     Book(0, "1984", "George Orwell", "Fiction", "Entertainment",
          "A dystopian social science fiction novel that follows Winston Smith, a low-ranking citizen of Oceania."),
     Book(0, "The Lean Startup", "Eric Ries", "Business", "Learning",
          "A methodology for developing businesses and products that aims to shorten product development cycles.") >>

\* var count int64; db.Model(&models.Book{}).Count(&count): the first store
\* call of SeedDatabase. Its error is not looked at, and count keeps its zero
\* value when the query fails.
Count(d) ==
  IF Fails(d, 1) THEN [count |-> 0, err |-> ErrStorage]
  ELSE [count |-> Cardinality(d.books), err |-> Nil]

\* The loop of SeedDatabase from its i-th book on: db.Create(&book), store
\* call i + 1, and return err at the first one that fails.
RECURSIVE SeedFrom(_, _)
SeedFrom(d, i) ==
  IF i > Len(SeedBooks) THEN [db |-> d, err |-> Nil]
  ELSE LET r == Create([d EXCEPT !.fault = IF Fails(d, i + 1) THEN 1 ELSE 0],
                       SeedBooks[i])
           after == [r.db EXCEPT !.fault = d.fault]
       IN IF r.err # Nil THEN [db |-> after, err |-> r.err]
          ELSE SeedFrom(after, i + 1)

SeedDatabase(d) ==
  IF Count(d).count > 0 THEN [db |-> d, err |-> Nil]
  ELSE SeedFrom(d, 1)

\* The store calls SeedDatabase makes at most: the count and one Create per
\* baseline book.
SeedCalls == 1 + Len(SeedBooks)

----------------------------------------------------------------------------
\* Requests


\* Bodies a client posts to /books: the five members and an "id" of the
\* client's choosing (0: none).
CreateRequests ==
  { [b EXCEPT !.id = i] @@ [json |-> TRUE] : b \in SampleBooks, i \in 0..MaxId }
  \cup { [Book(0, "", "A1", "Fiction", "Entertainment", "D1") @@ [json |-> TRUE]
            EXCEPT !.id = 0],
         Book(0, "", "", "", "", "") @@ [json |-> FALSE] }

\* Bodies a client sends with PATCH /books/:id: json tells whether the body
\* parses, body holds the members present, <<>> for null and <<v>> for the
\* value v.
UpdateRequests ==
  { [json |-> TRUE, body |-> EmptyMap],
    [json |-> TRUE, body |-> [title |-> <<"T2">>]],
    [json |-> TRUE, body |-> [title |-> <<"">>]],
    [json |-> TRUE, body |-> [title |-> <<>>, author |-> <<"A2">>]],
    [json |-> TRUE, body |-> [id |-> <<2>>, author |-> <<"A2">>]],
    [json |-> FALSE, body |-> EmptyMap] }

\* Bodies a client posts to /books/recommend ("" for a missing member).
RecommendRequests ==
  { [json |-> TRUE, genre |-> "Fiction", purpose |-> "Entertainment"],
    [json |-> TRUE, genre |-> "Business", purpose |-> "Learning"],
    [json |-> TRUE, genre |-> "Fiction", purpose |-> "Learning"],
    [json |-> TRUE, genre |-> "", purpose |-> "Entertainment"],
    [json |-> TRUE, genre |-> "Fiction", purpose |-> ""],
    [json |-> FALSE, genre |-> "", purpose |-> ""] }

\* Path parameters a client sends as :id.
PathIds ==
  { FormatUint(i) : i \in 0..MaxId }
  \cup { <<"0", "1">>, <<"a", "b", "c">>, <<"-", "1">>,
         <<"4", "2", "9", "4", "9", "6", "7", "2", "9", "6">> }

----------------------------------------------------------------------------
\* State

VARIABLES
  db,     \* the database: rows of the books table and sqlite_sequence
  last,   \* the call being answered: operation, arguments, returned values
          \* and the database as it was when the call was made
  live,   \* the books the callers created and have not deleted, each with
          \* the values of the latest update made to it
  inflight, \* repository calls of callers that run at the same time: the
            \* database they started from and, per caller, the call, how far
            \* it has got and what it returned
  assigned, \* the ids the store has handed to created books so far
  main      \* the process: how far main has got, the error of InitDatabase,
            \* whether SeedDatabase has returned and with which error

vars == <<db, last, live, inflight, assigned, main>>

\* main once the server listens: InitDatabase succeeded, SeedDatabase
\* returned nil.
Serving ==
  [pc |-> "serving", initErr |-> Nil, seeded |-> TRUE, seedErr |-> Nil]

\* The goroutines that call the repository at the same time.
Callers == {1, 2}

\* A caller that has made no call.
NotStarted ==
  [req |-> <<>>, pc |-> "idle", loaded |-> <<>>, out |-> <<>>, err |-> Nil]

NoCalls == [start |-> EmptyDB, call |-> [c \in Callers |-> NotStarted]]

\* No call in progress.
Idle ==
  [op |-> "idle", id |-> 0, book |-> <<>>, updates |-> EmptyMap,
   genre |-> "", purpose |-> "", path |-> <<>>, req |-> <<>>,
   out |-> <<>>, err |-> Nil, status |-> 0, error |-> "", message |-> "",
   calls |-> <<>>, pre |-> EmptyDB]

\* A call of a repository method and what it returned.
Call(op, id, book, updates, genre, purpose, out, err) ==
  [Idle EXCEPT !.op = op, !.id = id, !.book = book, !.updates = updates,
               !.genre = genre, !.purpose = purpose, !.out = out,
               !.err = err, !.pre = db]

\* A request to a handler and the response it wrote.
Served(op, path, req, resp) ==
  [Idle EXCEPT !.op = op, !.path = path, !.req = req, !.out = resp.out,
               !.status = resp.status, !.error = resp.error,
               !.message = resp.message, !.calls = resp.calls, !.pre = db]

Init ==
  /\ db = EmptyDB
  /\ live = {}
  /\ last = Idle
  /\ inflight = NoCalls
  /\ assigned = Ids(db.books)
  /\ main = Serving

CallCreate(b) ==
  LET r == Create(db, b)
  IN /\ last = Idle
     /\ r.book.id <= MaxId
     /\ db' = Healed(r.db)
     /\ last' = Call("Create", 0, <<b>>, EmptyMap, "", "", <<r.book>>, r.err)
     /\ assigned' = IF r.err = Nil THEN assigned \cup {r.book.id} ELSE assigned
     /\ UNCHANGED <<inflight, main>>
     /\ live' = IF r.err = Nil THEN live \cup {[b EXCEPT !.id = r.book.id]}
                ELSE live

CallGetAll ==
  LET r == GetAll(db)
  IN /\ last = Idle
     /\ last' = Call("GetAll", 0, <<>>, EmptyMap, "", "", r.books, r.err)
     /\ db' = Healed(db)
     /\ UNCHANGED <<live, inflight, assigned, main>>

CallGetByID(id) ==
  LET r == GetByID(db, id)
  IN /\ last = Idle
     /\ last' = Call("GetByID", id, <<>>, EmptyMap, "", "", r.book, r.err)
     /\ db' = Healed(db)
     /\ UNCHANGED <<live, inflight, assigned, main>>

CallUpdate(id, u) ==
  LET r == Update(db, id, u)
  IN /\ last = Idle
     /\ db' = Healed(r.db)
     /\ last' = Call("Update", id, <<>>, u, "", "", r.book, r.err)
     /\ UNCHANGED <<inflight, assigned, main>>
     /\ live' = IF r.err = Nil
                THEN {IF b.id = id THEN Assign(b, u) ELSE b : b \in live}
                ELSE live

CallDelete(id) ==
  LET r == Delete(db, id)
  IN /\ last = Idle
     /\ db' = Healed(r.db)
     /\ last' = Call("Delete", id, <<>>, EmptyMap, "", "", r.book, r.err)
     /\ UNCHANGED <<inflight, assigned, main>>
     /\ live' = IF r.err = Nil THEN {b \in live : b.id # id} ELSE live

CallFindByGenreAndPurpose(genre, purpose) ==
  LET r == FindByGenreAndPurpose(db, genre, purpose)
  IN /\ last = Idle
     /\ last' = Call("FindByGenreAndPurpose", 0, <<>>, EmptyMap,
                     genre, purpose, r.book, r.err)
     /\ db' = Healed(db)
     /\ UNCHANGED <<live, inflight, assigned, main>>

\* POST /books
ServeCreateBook(req) ==
  LET r == CreateBook(db, req)
  IN /\ last = Idle
     /\ BindCreate(req) = Nil => NextId(db) <= MaxId
     /\ db' = Healed(r.db)
     /\ last' = Served("CreateBook", <<>>, <<req>>, r)
     /\ assigned' = IF r.status = 201 THEN assigned \cup {r.out[1].id}
                    ELSE assigned
     /\ UNCHANGED <<inflight, main>>
     /\ live' = IF r.status = 201
                THEN live \cup {Book(r.out[1].id, req.title, req.author,
                                     req.genre, req.purpose, req.description)}
                ELSE live

\* GET /books/:id
ServeGetBookByID(idStr) ==
  LET r == GetBookByID(db, idStr)
  IN /\ last = Idle
     /\ last' = Served("GetBookByID", idStr, <<>>, r)
     /\ db' = Healed(db)
     /\ UNCHANGED <<live, inflight, assigned, main>>

\* The result reaches the caller, which may then make its next call.
Return ==
  /\ last # Idle
  /\ last' = Idle
  /\ UNCHANGED <<db, live, inflight, assigned, main>>

Next ==
  \/ \E b \in SampleBooks, id \in 0..MaxId : CallCreate([b EXCEPT !.id = id])
  \/ CallGetAll
  \/ \E id \in 0..MaxId : CallGetByID(id)
  \/ \E id \in 0..MaxId, u \in UpdateMaps : CallUpdate(id, u)
  \/ \E id \in 0..MaxId : CallDelete(id)
  \/ \E g \in {"Fiction", "fiction"}, p \in {"Entertainment", "entertainment"} :
        CallFindByGenreAndPurpose(g, p)
  \/ \E req \in CreateRequests : ServeCreateBook(req)
  \/ \E idStr \in PathIds : ServeGetBookByID(idStr)
  \/ Return

Spec == Init /\ [][Next]_vars

\* The study of Update on one row: two stored books, the first with any
\* combination of column values, and Update called with any updates map.
InitRow ==
  /\ \E v \in RowValues :
       db = [books |-> { Book(1, v.title, v.author, v.genre, v.purpose,
                              v.description),
                         Book(2, "T1", "A1", "Fiction", "Entertainment", "D1") },
             seq |-> 2, fault |-> 0]
  /\ live = db.books
  /\ last = Idle
  /\ inflight = NoCalls
  /\ assigned = Ids(db.books)
  /\ main = Serving

NextRow ==
  \/ \E id \in 0..MaxId, u \in AllUpdateMaps : CallUpdate(id, u)
  \/ Return

SpecRow == InitRow /\ [][NextRow]_vars

\* The study of the primary key: books are created, updated with maps that
\* name "id", and deleted.
NextKey ==
  \/ \E b \in SampleBooks : CallCreate(b)
  \/ \E id \in 0..MaxId, u \in IdUpdateMaps : CallUpdate(id, u)
  \/ \E id \in 0..MaxId : CallDelete(id)
  \/ Return

SpecKey == Init /\ [][NextKey]_vars


\* main: database.SeedDatabase(db), on the database as it stands.
Seed ==
  LET r == SeedDatabase(db)
  IN /\ last = Idle
     /\ r.db.books # db.books => NextId(db) <= MaxId + 1
     /\ db' = Healed(r.db)
     /\ last' = Call("SeedDatabase", 0, <<>>, EmptyMap, "", "", <<>>, r.err)
     /\ assigned' = assigned \cup Ids(r.db.books \ db.books)
     /\ UNCHANGED <<inflight, main>>
     /\ live' = live \cup (r.db.books \ db.books)

\* The connection goes bad: the f-th store call of the next operation fails.
Break(f) ==
  /\ last = Idle
  /\ db.fault = 0
  /\ db' = [db EXCEPT !.fault = f]
  /\ UNCHANGED <<last, live, inflight, assigned, main>>

\* The study of store failures: SeedDatabase and the repository methods on
\* a connection that can fail at any one store call.
NextSeed ==
  \/ \E f \in 1..SeedCalls : Break(f)
  \/ Seed
  \/ \E b \in SampleBooks : CallCreate(b)
  \/ CallGetAll
  \/ \E id \in 0..MaxId : CallGetByID(id)
  \/ \E id \in 0..MaxId, u \in {EmptyMap, [title |-> "T2"]} : CallUpdate(id, u)
  \/ \E id \in 0..MaxId : CallDelete(id)
  \/ CallFindByGenreAndPurpose("Fiction", "Entertainment")
  \/ Return

SpecSeed == Init /\ [][NextSeed]_vars


\* GET /books
ServeGetAllBooks ==
  LET r == GetAllBooks(db)
  IN /\ last = Idle
     /\ last' = Served("GetAllBooks", <<>>, <<>>, r)
     /\ db' = Healed(db)
     /\ UNCHANGED <<live, inflight, assigned, main>>

\* PATCH /books/:id
ServeUpdateBook(idStr, req) ==
  LET r == UpdateBook(db, idStr, req)
  IN /\ last = Idle
     /\ db' = Healed(r.db)
     /\ last' = Served("UpdateBook", idStr, <<req>>, r)
     /\ UNCHANGED <<inflight, assigned, main>>
     /\ live' = IF r.status = 200
                THEN {IF b.id = r.out[1].id THEN Assign(b, UpdatesOf(req))
                      ELSE b : b \in live}
                ELSE live

\* DELETE /books/:id
ServeDeleteBook(idStr) ==
  LET r == DeleteBook(db, idStr)
  IN /\ last = Idle
     /\ db' = Healed(r.db)
     /\ last' = Served("DeleteBook", idStr, <<>>, r)
     /\ UNCHANGED <<inflight, assigned, main>>
     /\ live' = IF r.status = 200 THEN {b \in live : b.id # r.out[1].id}
                ELSE live

\* POST /books/recommend
ServeRecommendBook(req) ==
  LET r == RecommendBook(db, req)
  IN /\ last = Idle
     /\ last' = Served("RecommendBook", <<>>, <<req>>, r)
     /\ db' = Healed(db)
     /\ UNCHANGED <<live, inflight, assigned, main>>

\* The server of main: InitDatabase, SeedDatabase, then the routes of the
\* handlers; the database file is new or already seeded.
InitHttp ==
  /\ db \in {EmptyDB, SeedDatabase(EmptyDB).db}
  /\ live = db.books
  /\ last = Idle
  /\ inflight = NoCalls
  /\ assigned = Ids(db.books)
  /\ main = Serving

NextHttp ==
  \/ \E f \in 1..2 : Break(f)
  \/ \E req \in CreateRequests : ServeCreateBook(req)
  \/ ServeGetAllBooks
  \/ \E idStr \in PathIds : ServeGetBookByID(idStr)
  \/ \E idStr \in PathIds, req \in UpdateRequests : ServeUpdateBook(idStr, req)
  \/ \E idStr \in PathIds : ServeDeleteBook(idStr)
  \/ \E req \in RecommendRequests : ServeRecommendBook(req)
  \/ Return

SpecHttp == InitHttp /\ [][NextHttp]_vars


\* The calls the concurrent callers make.
ConcCalls ==
  { [op |-> "Create", id |-> 0, book |-> <<b>>, updates |-> EmptyMap]
      : b \in SampleBooks }
  \cup { [op |-> o, id |-> 0, book |-> <<>>, updates |-> EmptyMap]
           : o \in {"GetAll", "FindByGenreAndPurpose"} }
  \cup { [op |-> o, id |-> 1, book |-> <<>>, updates |-> EmptyMap]
           : o \in {"GetByID", "Delete"} }
  \cup { [op |-> "Update", id |-> 1, book |-> <<>>, updates |-> u]
           : u \in {[title |-> "T2"], [author |-> "A2"]} }

\* A repository method run from call to return with no other caller in
\* between: the database it leaves, what it returns.
Apply(d, q) ==
  CASE q.op = "Create" ->
         LET r == Create(d, q.book[1])
         IN [db |-> r.db, out |-> <<r.book>>, err |-> r.err]
    [] q.op = "GetAll" ->
         LET r == GetAll(d) IN [db |-> d, out |-> r.books, err |-> r.err]
    [] q.op = "GetByID" ->
         LET r == GetByID(d, q.id) IN [db |-> d, out |-> r.book, err |-> r.err]
    [] q.op = "FindByGenreAndPurpose" ->
         LET r == FindByGenreAndPurpose(d, "Fiction", "Entertainment")
         IN [db |-> d, out |-> r.book, err |-> r.err]
    [] q.op = "Update" ->
         LET r == Update(d, q.id, q.updates)
         IN [db |-> r.db, out |-> r.book, err |-> r.err]
    [] q.op = "Delete" ->
         LET r == Delete(d, q.id)
         IN [db |-> r.db, out |-> r.book, err |-> r.err]

\* The callers' books after call q returned out, err.
LiveAfter(q, out, err) ==
  IF err # Nil THEN live
  ELSE CASE q.op = "Create" -> live \cup {out[1]}
         [] q.op = "Update" ->
              {IF b.id = out[1].id THEN Assign(b, q.updates) ELSE b : b \in live}
         [] q.op = "Delete" -> {b \in live : b.id # out[1].id}
         [] OTHER -> live

\* Caller c calls q and the method makes its first store call: the only one
\* of Create, GetAll, GetByID and FindByGenreAndPurpose, which then return;
\* db.First(&book, id) for Update and Delete, which return at once when it
\* fails and otherwise hold the loaded book for their second store call.
Begin(c, q) ==
  LET me == inflight.call[c]
      f  == Load(db, q.id)
      r  == Apply(db, q)
      two == q.op \in {"Update", "Delete"}
      done == IF two
                THEN [me EXCEPT !.req = <<q>>, !.pc = "done", !.err = f.err]
                ELSE [me EXCEPT !.req = <<q>>, !.pc = "done", !.out = r.out,
                                !.err = r.err]
      held == [me EXCEPT !.req = <<q>>, !.pc = "loaded", !.loaded = f.book]
  IN /\ me.pc = "idle"
     /\ IF two /\ f.err = Nil
          THEN /\ inflight' = [inflight EXCEPT !.call[c] = held]
               /\ UNCHANGED <<db, live, assigned>>
          ELSE /\ inflight' = [inflight EXCEPT !.call[c] = done]
               /\ db' = IF two THEN db ELSE r.db
               /\ live' = LiveAfter(q, done.out, done.err)
               /\ assigned' = IF q.op = "Create" /\ done.err = Nil
                                THEN assigned \cup {done.out[1].id}
                              ELSE assigned
     /\ UNCHANGED <<last, main>>

\* The second store call of caller c's Update or Delete, on the database as
\* it is by then, and the return.
Finish(c) ==
  LET me == inflight.call[c]
      q  == me.req[1]
      r  == IF q.op = "Update" THEN ExecUpdates(db, me.loaded[1], q.updates)
            ELSE ExecDelete(db, me.loaded[1])
  IN /\ me.pc = "loaded"
     /\ db' = r.db
     /\ inflight' = [inflight EXCEPT !.call[c] =
                       [me EXCEPT !.pc = "done", !.out = r.book, !.err = r.err]]
     /\ live' = LiveAfter(q, r.book, r.err)
     /\ UNCHANGED <<last, assigned, main>>

\* Two callers, one call each, on an empty table or on one that holds two
\* books.
InitConc ==
  /\ db \in { EmptyDB,
              [EmptyDB EXCEPT
                 !.books = { Book(1, "T1", "A1", "Fiction", "Entertainment", "D1"),
                             Book(2, "T2", "A2", "fiction", "entertainment", "D1") },
                 !.seq = 2] }
  /\ live = db.books
  /\ last = Idle
  /\ inflight = [NoCalls EXCEPT !.start = db]
  /\ assigned = Ids(db.books)
  /\ main = Serving

NextConc ==
  \/ \E c \in Callers, q \in ConcCalls : Begin(c, q)
  \/ \E c \in Callers : Finish(c)

SpecConc == InitConc /\ [][NextConc]_vars


\* The errors of InitDatabase: gorm.Open could not open the database file,
\* AutoMigrate could not create or alter the books table.
ErrOpen == "unable to open database file"
ErrMigrate == "migration failed"

\* database.InitDatabase(dbPath) on the database file d: gorm.Open, then
\* db.AutoMigrate(&models.Book{}), which leaves the rows of an existing
\* table alone; nil and the error when either fails.
InitDatabase(d) ==
  IF Fails(d, 1) THEN [db |-> <<>>, err |-> ErrOpen]
  ELSE IF Fails(d, 2) THEN [db |-> <<>>, err |-> ErrMigrate]
  ELSE [db |-> <<d>>, err |-> Nil]

\* main before its first statement.
Starting ==
  [pc |-> "start", initErr |-> Nil, seeded |-> FALSE, seedErr |-> Nil]

\* OpenDatabase that logs the error of InitDatabase and goes on.
OpenDatabase_GoesOn(f) ==
  LET r == InitDatabase([db EXCEPT !.fault = f])
  IN /\ main.pc = "start"
     /\ main' = [main EXCEPT !.pc = "opened", !.initErr = r.err]
     /\ UNCHANGED <<db, last, live, inflight, assigned>>

\* main: db, err := database.InitDatabase(dbPath); log.Fatal on an error.
OpenDatabase(f) ==
  LET r == InitDatabase([db EXCEPT !.fault = f])
  IN /\ main.pc = "start"
     /\ main' = IF r.err # Nil
                  THEN [main EXCEPT !.pc = "exited", !.initErr = r.err]
                  ELSE [main EXCEPT !.pc = "opened"]
     /\ UNCHANGED <<db, last, live, inflight, assigned>>

\* main: database.SeedDatabase(db); an error is logged as a warning and
\* main goes on.
RunSeed(f) ==
  LET r == SeedDatabase([db EXCEPT !.fault = f])
  IN /\ main.pc = "opened"
     /\ db' = Healed(r.db)
     /\ main' = [main EXCEPT !.pc = "seeded", !.seeded = TRUE,
                             !.seedErr = r.err]
     /\ live' = live \cup (r.db.books \ db.books)
     /\ assigned' = assigned \cup Ids(r.db.books \ db.books)
     /\ UNCHANGED <<last, inflight>>

\* main: the routes are registered and r.Run listens; log.Fatal when it
\* cannot.
Listen(ok) ==
  /\ main.pc = "seeded"
  /\ main' = [main EXCEPT !.pc = IF ok THEN "serving" ELSE "exited"]
  /\ UNCHANGED <<db, last, live, inflight, assigned>>

\* The router of r.Run dispatches requests.
Running == main.pc = "serving"

\* The routes of main, open once the server listens.
RouteCreateBook(req) == Running /\ ServeCreateBook(req)

RouteGetAllBooks == Running /\ ServeGetAllBooks

RouteGetBookByID(idStr) == Running /\ ServeGetBookByID(idStr)

RouteUpdateBook(idStr, req) == Running /\ ServeUpdateBook(idStr, req)

RouteDeleteBook(idStr) == Running /\ ServeDeleteBook(idStr)

RouteRecommendBook(req) == Running /\ ServeRecommendBook(req)

\* The process from its start, on a database file that is new or holds the
\* baseline books.
InitMain ==
  /\ db \in {EmptyDB, SeedDatabase(EmptyDB).db}
  /\ live = db.books
  /\ last = Idle
  /\ inflight = NoCalls
  /\ assigned = Ids(db.books)
  /\ main = Starting

NextMain ==
  \/ \E f \in 0..2 : OpenDatabase(f)
  \/ \E f \in 0..SeedCalls : RunSeed(f)
  \/ \E ok \in BOOLEAN : Listen(ok)
  \/ \E req \in CreateRequests : RouteCreateBook(req)
  \/ RouteGetAllBooks
  \/ \E idStr \in PathIds : RouteGetBookByID(idStr)
  \/ \E idStr \in PathIds, req \in UpdateRequests : RouteUpdateBook(idStr, req)
  \/ \E idStr \in PathIds : RouteDeleteBook(idStr)
  \/ \E req \in RecommendRequests : RouteRecommendBook(req)
  \/ Return

SpecMain == InitMain /\ [][NextMain]_vars


----------------------------------------------------------------------------
\* Properties

Range(seq) == {seq[i] : i \in 1..Len(seq)}

\* C1: after Create(b) succeeds, GetByID with the id Create assigned returns
\* a book with the five column values of b and that id.
C1_CreateThenGetByID ==
  (last.op = "Create" /\ last.err = Nil) =>
    LET b  == last.book[1]
        id == last.out[1].id
        r  == GetByID(db, id)
    IN /\ r.err = Nil
       /\ r.book = <<Book(id, b.title, b.author, b.genre, b.purpose,
                          b.description)>>

\* Create assigned an id to a second book, with another book already stored.
C1_Witness ==
  /\ last.op = "Create" /\ last.err = Nil
  /\ last.book[1].id = 0
  /\ last.pre.books # {}

\* C2: GetByID, Update and Delete called with an id no stored book has (0
\* included) return a not-found error and no book.
C2_AbsentIdNotFound ==
  (last.op \in {"GetByID", "Update", "Delete"}
     /\ last.id \notin Ids(last.pre.books)) =>
    (last.err = ErrRecordNotFound /\ last.out = <<>>)

\* Update with a non-empty map was called for id 0 on a non-empty store.
C2_Witness ==
  /\ last.op = "Update" /\ last.id = 0
  /\ DOMAIN last.updates # {}
  /\ last.pre.books # {}
  /\ last.err = ErrRecordNotFound

\* C3: a successful Update(id, u) sets the columns u names to u's values and
\* leaves every other column at its prior value, in the stored row and in
\* the returned entity.
C3_UpdateFrame ==
  (last.op = "Update" /\ last.err = Nil) =>
    /\ Len(last.out) = 1
    /\ WhereId(db.books, last.id) # {}
    /\ \A old \in WhereId(last.pre.books, last.id),
          new \in WhereId(db.books, last.id), k \in Keys :
         IF k \in DOMAIN last.updates
           THEN new[k] = last.updates[k] /\ last.out[1][k] = last.updates[k]
           ELSE new[k] = old[k] /\ last.out[1][k] = old[k]

\* Update changed title and genre of a row and kept its author and
\* description, which differ from the values the map would have given them.
C3_Witness ==
  /\ last.op = "Update" /\ last.err = Nil /\ last.id = 1
  /\ DOMAIN last.updates = {"title", "genre"}
  /\ \E old \in WhereId(last.pre.books, 1) :
       /\ old.title # last.updates.title
       /\ old.genre # last.updates.genre
       /\ old.author = "A2" /\ old.description = "D2"
       /\ last.updates.title = "T1"

\* C4: Update(id, {}) on a stored book succeeds, returns the stored row and
\* leaves the store unchanged.
C4_EmptyUpdate ==
  (last.op = "Update" /\ DOMAIN last.updates = {}
     /\ last.id \in Ids(last.pre.books)) =>
    /\ last.err = Nil
    /\ Len(last.out) = 1
    /\ last.out[1] \in WhereId(last.pre.books, last.id)
    /\ db = last.pre

\* Update with an empty map was called for a stored book that an earlier
\* Update had changed.
C4_Witness ==
  /\ last.op = "Update" /\ DOMAIN last.updates = {}
  /\ last.err = Nil
  /\ \E r \in WhereId(last.pre.books, last.id) :
       r.title = "T2" /\ r.author = "A1"

\* C5: after Delete(id) succeeds, GetByID(id) fails with not-found and
\* GET /books/<id> answers 404.
C5_DeleteThenGetByID ==
  (last.op = "Delete" /\ last.err = Nil) =>
    /\ GetByID(db, last.id).err = ErrRecordNotFound
    /\ GetByID(db, last.id).book = <<>>
    /\ GetBookByID(db, FormatUint(last.id)).status = 404

\* Delete succeeded on a store that keeps another book.
C5_Witness ==
  /\ last.op = "Delete" /\ last.err = Nil
  /\ db.books # {}

\* C6: a successful Delete(id) returns the row as it was stored immediately
\* before the deletion, earlier updates included.
C6_DeleteReturnsStored ==
  (last.op = "Delete" /\ last.err = Nil) =>
    /\ Len(last.out) = 1
    /\ last.out[1].id = last.id
    /\ WhereId(last.pre.books, last.id) = {last.out[1]}

\* Delete returned a book that carries the effect of an earlier Update: no
\* book is created with this combination of title and author.
C6_Witness ==
  /\ last.op = "Delete" /\ last.err = Nil
  /\ last.out[1].title = "T1" /\ last.out[1].author = "A2"

\* C7: a successful Delete(id) removes exactly the row with that id: GetAll
\* is shorter by 1 and every other book is stored as before.
C7_DeleteFrame ==
  (last.op = "Delete" /\ last.err = Nil) =>
    /\ Len(GetAll(db).books) = Len(GetAll(last.pre).books) - 1
    /\ db.books = {r \in last.pre.books : r.id # last.id}
    /\ \A r \in last.pre.books : r.id # last.id => r \in db.books

\* Delete removed the book with id 1 while the book with id 2 was stored.
C7_Witness ==
  /\ last.op = "Delete" /\ last.err = Nil /\ last.id = 1
  /\ 2 \in Ids(last.pre.books)

\* C8: FindByGenreAndPurpose returns a stored book whose genre and purpose
\* equal the arguments exactly when one is stored, and not-found otherwise;
\* Fiction/Entertainment is not matched by fiction/entertainment.
C8_FindExact ==
  (last.op = "FindByGenreAndPurpose") =>
    IF \E r \in last.pre.books :
         r.genre = last.genre /\ r.purpose = last.purpose
      THEN /\ last.err = Nil
           /\ Len(last.out) = 1
           /\ last.out[1] \in last.pre.books
           /\ last.out[1].genre = last.genre
           /\ last.out[1].purpose = last.purpose
      ELSE last.err = ErrRecordNotFound /\ last.out = <<>>

\* fiction/entertainment was searched in a store that holds a book with
\* Fiction/Entertainment and none with fiction/entertainment.
C8_Witness ==
  /\ last.op = "FindByGenreAndPurpose"
  /\ last.genre = "fiction" /\ last.purpose = "entertainment"
  /\ \E r \in last.pre.books :
       r.genre = "Fiction" /\ r.purpose = "Entertainment"
  /\ last.err = ErrRecordNotFound

\* C9: GetAll succeeds and returns exactly the books created and not yet
\* deleted, each with the values of its latest update; on an empty store it
\* returns the empty sequence.
C9_GetAllIsLive ==
  LET r == GetAll(db)
  IN /\ r.err = Nil
     /\ Range(r.books) = live
     /\ Len(r.books) = Cardinality(live)
     /\ (live = {} => r.books = <<>>)
     /\ (last.op = "GetAll" =>
           last.err = Nil /\ Range(last.out) = live
           /\ Len(last.out) = Cardinality(live))

\* GetAll returned two books, one of them changed by an Update.
C9_Witness ==
  /\ last.op = "GetAll"
  /\ Len(last.out) = 2
  /\ \E b \in Range(last.out) : b.title = "T1" /\ b.author = "A2"

\* C10: a successful Create gives the book a nonzero id no stored book has,
\* no two stored books share an id, and the id of a book created through
\* POST /books is the one the store assigns, whatever the body says.
C10_FreshUniqueId ==
  /\ (last.op = "Create" /\ last.err = Nil) =>
        (last.out[1].id # 0 /\ last.out[1].id \notin Ids(last.pre.books))
  /\ (last.op = "CreateBook" /\ last.status = 201) =>
        /\ last.out[1].id # 0
        /\ last.out[1].id \notin Ids(last.pre.books)
        /\ last.out[1].id = NextId(last.pre)
  /\ \A b1 \in db.books, b2 \in db.books : b1.id = b2.id => b1 = b2

\* POST /books with an "id" in the body created a book under another id.
C10_Witness ==
  /\ last.op = "CreateBook" /\ last.status = 201
  /\ last.req[1].id # 0
  /\ last.req[1].id # last.out[1].id
  /\ last.pre.books # {}

\* C11: a successful Update(id, u) leaves the ids of the stored rows as they
\* were and returns a book that carries the id passed in.
C11_IdImmutable ==
  (last.op = "Update" /\ last.err = Nil) =>
    /\ Ids(db.books) = Ids(last.pre.books)
    /\ last.out[1].id = last.id


\* C13: SeedDatabase called on a table that holds a book changes nothing and
\* returns nil; called on an empty table and returning nil it has inserted
\* the four baseline books, one row each.
C13_SeedOnlyWhenEmpty ==
  last.op = "SeedDatabase" =>
    IF last.pre.books # {}
      THEN db.books = last.pre.books /\ last.err = Nil
      ELSE last.err = Nil =>
             /\ Cardinality(db.books) = Len(SeedBooks)
             /\ {[b EXCEPT !.id = 0] : b \in db.books} = Range(SeedBooks)

\* A store call of the operation in last failed: the failing call is one
\* the operation reached.
StoreCallFailed ==
  LET f == last.pre.fault
  IN CASE last.op = "SeedDatabase" ->
            f = 1 \/ (f \in 2..SeedCalls /\ last.pre.books = {})
       [] last.op \in {"Create", "GetAll", "GetByID", "FindByGenreAndPurpose"} ->
            f = 1
       [] last.op = "Update" ->
            f = 1 \/ (f = 2 /\ last.id \in Ids(last.pre.books)
                            /\ DOMAIN last.updates # {})
       [] last.op = "Delete" ->
            f = 1 \/ (f = 2 /\ last.id \in Ids(last.pre.books))
       [] OTHER -> FALSE

\* C15: when a store call made by SeedDatabase or by a repository method
\* fails, the operation returns an error.
C15_NoErrorSwallowed ==
  StoreCallFailed => last.err # Nil


\* C12: every book stored through the handlers has non-empty title, author,
\* genre, purpose and description.
C12_NoEmptyStored ==
  \A b \in db.books : \A k \in Keys : b[k] # ""

\* C16: when the repository method called by GetBookByID, UpdateBook,
\* DeleteBook or RecommendBook fails with a storage error the answer is 500,
\* and 404 is answered only for an absent book or match.
C16_StorageFailureIs500 ==
  (/\ last.op \in {"GetBookByID", "UpdateBook", "DeleteBook", "RecommendBook"}
   /\ last.calls # <<>>) =>
    /\ last.calls[1].err = ErrStorage => last.status = 500
    /\ last.status = 404 => last.calls[1].err = ErrRecordNotFound


\* s is an unsigned decimal integer in [0, 2^32-1]: digits only, and after
\* its leading zeros at most ten digits that do not exceed 42949 67295.
IsUint32(s) ==
  /\ Len(s) >= 1
  /\ \A i \in 1..Len(s) : s[i] \in {"0", "1", "2", "3", "4", "5", "6", "7", "8", "9"}
  /\ LET t == TrimZeros(s)
     IN \/ Len(t) < 10
        \/ /\ Len(t) = 10
           /\ LET hi == DecimalValue(SubSeq(t, 1, 5))
                  lo == DecimalValue(SubSeq(t, 6, 10))
              IN hi < 42949 \/ (hi = 42949 /\ lo <= 67295)

\* The request in last left the table as it was.
StoreUnchanged == db.books = last.pre.books /\ db.seq = last.pre.seq

\* C17: GetBookByID, UpdateBook and DeleteBook answer a path id that is not
\* an unsigned decimal integer in [0, 2^32-1] with 400 'Invalid ID' / 'ID
\* must be a valid number', whatever the body, without calling the
\* repository and without changing the store.
C17_MalformedIdIs400 ==
  (/\ last.op \in {"GetBookByID", "UpdateBook", "DeleteBook"}
   /\ ~IsUint32(last.path)) =>
    /\ last.status = 400
    /\ last.error = "Invalid ID"
    /\ last.message = "ID must be a valid number"
    /\ last.calls = <<>>
    /\ StoreUnchanged

\* UpdateBook answered a malformed id ahead of a body that does not parse.
C17_Witness ==
  /\ last.op = "UpdateBook"
  /\ ~IsUint32(last.path)
  /\ ~last.req[1].json
  /\ last.error = "Invalid ID"
  /\ last.pre.books # {}

\* C18: CreateBook answers 400 'Invalid request' when the body is not JSON
\* or one of the five members is missing or empty, RecommendBook answers 400
\* when genre or purpose is missing; the repository is not called and the
\* store is unchanged.
C18_InvalidBodyIs400 ==
  /\ (/\ last.op = "CreateBook"
      /\ (~last.req[1].json \/ \E k \in Keys : last.req[1][k] = "")) =>
       /\ last.status = 400
       /\ last.error = "Invalid request"
       /\ last.calls = <<>>
       /\ StoreUnchanged
  /\ (/\ last.op = "RecommendBook"
      /\ (last.req[1].genre = "" \/ last.req[1].purpose = "")) =>
       /\ last.status = 400
       /\ last.calls = <<>>
       /\ StoreUnchanged

\* RecommendBook refused a body with a genre and no purpose while a book of
\* that genre was stored.
C18_Witness ==
  /\ last.op = "RecommendBook"
  /\ last.req[1].json
  /\ last.req[1].genre # ""
  /\ last.req[1].purpose = ""
  /\ last.status = 400
  /\ \E b \in last.pre.books : b.genre = last.req[1].genre

\* The request in last names, by a well-formed path id, a book the table
\* does not hold.
AbsentId ==
  /\ last.op \in {"GetBookByID", "UpdateBook", "DeleteBook"}
  /\ IsUint32(last.path)
  /\ DecimalValue(last.path) \notin Ids(last.pre.books)

\* The request in last asks for a recommendation no stored book matches.
NoMatch ==
  /\ last.op = "RecommendBook"
  /\ ~\E b \in last.pre.books :
        b.genre = last.req[1].genre /\ b.purpose = last.req[1].purpose

C20_CreateAndListStatus ==
  /\ (/\ last.op = "CreateBook"
      /\ last.req[1].json /\ \A k \in Keys : last.req[1][k] # "") =>
       /\ last.calls # <<>>
       /\ IF last.calls[1].err = Nil
            THEN /\ last.status = 201
                 /\ last.out = <<Book(NextId(last.pre), last.req[1].title,
                                      last.req[1].author, last.req[1].genre,
                                      last.req[1].purpose,
                                      last.req[1].description)>>
            ELSE /\ last.status = 500
                 /\ last.error = "Failed to create book"
                 /\ last.message = last.calls[1].err
  /\ (last.op = "GetAllBooks" /\ last.calls[1].err # Nil) =>
       /\ last.status = 500
       /\ last.error = "Failed to get books"

\* GetAllBooks answered 500 on a table that holds books.
C20_Witness ==
  /\ last.op = "GetAllBooks"
  /\ last.calls[1].err = ErrStorage
  /\ last.pre.books # {}
  /\ last.status = 500


\* The calls of callers a and b leave the database and return the values
\* that the call of a followed by the call of b leaves and returns.
AsIfInOrder(a, b) ==
  LET qa == inflight.call[a].req[1]
      qb == inflight.call[b].req[1]
      ra == Apply(inflight.start, qa)
      rb == Apply(ra.db, qb)
  IN /\ db.books = rb.db.books
     /\ db.seq = rb.db.seq
     /\ inflight.call[a].out = ra.out /\ inflight.call[a].err = ra.err
     /\ inflight.call[b].out = rb.out /\ inflight.call[b].err = rb.err

\* C14: when the calls of two callers overlap, once both have returned the
\* database and the returned values are those of the two calls run one after
\* the other in some order.
C14_Serializable ==
  (\A c \in Callers : inflight.call[c].pc = "done") =>
    AsIfInOrder(1, 2) \/ AsIfInOrder(2, 1)


\* The call of caller c is a finished call of method op.
Finished(c, op) ==
  /\ inflight.call[c].pc = "done"
  /\ inflight.call[c].req[1].op = op

\* C23: when two overlapping Update calls on the same row with disjoint
\* field sets have both succeeded, the stored row carries the values of
\* both.
C23_NoLostUpdate ==
  \A a \in Callers, b \in Callers :
    (/\ a # b
     /\ Finished(a, "Update") /\ Finished(b, "Update")
     /\ inflight.call[a].req[1].id = inflight.call[b].req[1].id
     /\ inflight.call[a].err = Nil /\ inflight.call[b].err = Nil
     /\ DOMAIN inflight.call[a].req[1].updates
          \cap DOMAIN inflight.call[b].req[1].updates = {}) =>
      \E r \in db.books :
        /\ r.id = inflight.call[a].req[1].id
        /\ \A k \in DOMAIN inflight.call[a].req[1].updates :
             r[k] = inflight.call[a].req[1].updates[k]
        /\ \A k \in DOMAIN inflight.call[b].req[1].updates :
             r[k] = inflight.call[b].req[1].updates[k]

\* Two Updates of book 1, one of the title and one of the author, have both
\* succeeded, and the first wrote after the second: the book it returned
\* still has the author it loaded.
C23_Witness ==
  /\ Finished(1, "Update") /\ Finished(2, "Update")
  /\ inflight.call[1].err = Nil /\ inflight.call[2].err = Nil
  /\ DOMAIN inflight.call[1].req[1].updates = {"title"}
  /\ DOMAIN inflight.call[2].req[1].updates = {"author"}
  /\ inflight.call[1].out[1].author = "A1"
  /\ \E r \in db.books : r.id = 1 /\ r.title = "T2" /\ r.author = "A2"

\* Caller c's Update returns success in this step.
UpdateReturns(c) ==
  /\ inflight.call[c].pc # "done"
  /\ inflight'.call[c].pc = "done"
  /\ inflight'.call[c].req[1].op = "Update"
  /\ inflight'.call[c].err = Nil

\* C24: the book a successful Update returns is the row stored under its id
\* right after the Update's write, also when another Update of the row
\* overlaps.
C24_ReturnsStoredRow ==
  [][\A c \in Callers :
       (UpdateReturns(c) /\ inflight'.call[c].req[1].id \in Ids(db'.books)) =>
         inflight'.call[c].out[1] \in db'.books]_vars

\* C25: when Update returns success the row is in the table and holds the
\* values of the updates map.
C25_UpdatedRowExists ==
  [][\A c \in Callers :
       UpdateReturns(c) =>
         \E r \in db'.books :
           /\ r.id = inflight'.call[c].req[1].id
           /\ \A k \in DOMAIN inflight'.call[c].req[1].updates :
                r[k] = inflight'.call[c].req[1].updates[k]]_vars

\* C26: when all callers have called Delete for the same stored book,
\* exactly one call returned the book with no error and every other one
\* returned ErrRecordNotFound.
C26_OneDeleteSucceeds ==
  (/\ \A c \in Callers : Finished(c, "Delete")
   /\ \A c \in Callers : inflight.call[c].req[1].id \in Ids(inflight.start.books)) =>
    \E w \in Callers :
      /\ inflight.call[w].err = Nil
      /\ inflight.call[w].out # <<>>
      /\ \A c \in Callers \ {w} : inflight.call[c].err = ErrRecordNotFound


\* C27: GetAll, GetByID and FindByGenreAndPurpose leave the table as it
\* was, and so do an Update and a Delete that return ErrRecordNotFound.
C27_ReadsAndMissesChangeNothing ==
  (\/ last.op \in {"GetAll", "GetByID", "FindByGenreAndPurpose"}
   \/ (last.op \in {"Update", "Delete"} /\ last.err = ErrRecordNotFound)) =>
    /\ db.books = last.pre.books
    /\ db.seq = last.pre.seq

\* Update with a non-empty map returned ErrRecordNotFound for an id other
\* than 0 on a table that holds another book.
C27_Witness ==
  /\ last.op = "Update" /\ last.id # 0
  /\ DOMAIN last.updates # {}
  /\ last.err = ErrRecordNotFound
  /\ last.pre.books # {}


\* C28: after SeedDatabase has returned, with or without an error, on a
\* table that was empty when it was called, the table holds all the
\* baseline books or none.
C28_SeedAllOrNothing ==
  (last.op = "SeedDatabase" /\ last.pre.books = {}) =>
    Cardinality(db.books) \in {0, Len(SeedBooks)}

\* The stored books of rows with the genre and purpose asked for in last.
Matches(rows) ==
  {b \in rows : b.genre = last.genre /\ b.purpose = last.purpose}

\* C29: when stored books match, FindByGenreAndPurpose returns the match
\* with the smallest id; the table it leaves is the table it read, so the
\* same call made again before any write has the same match to return.
C29_FindSmallestId ==
  (last.op = "FindByGenreAndPurpose" /\ Matches(last.pre.books) # {}) =>
    /\ last.err = Nil
    /\ last.out[1] \in Matches(last.pre.books)
    /\ \A m \in Matches(last.pre.books) : last.out[1].id <= m.id
    /\ Matches(db.books) = Matches(last.pre.books)
    /\ FindByGenreAndPurpose(db, last.genre, last.purpose).book = last.out

\* FindByGenreAndPurpose was called with two matching books stored.
C29_Witness ==
  /\ last.op = "FindByGenreAndPurpose"
  /\ Cardinality(Matches(last.pre.books)) >= 2
  /\ last.err = Nil


\* The members of the PATCH body in last that are present and not null.
Present ==
  {k \in Keys : k \in DOMAIN last.req[1].body /\ last.req[1].body[k] # <<>>}

\* C22: the updates map UpdateBook passes to Update has exactly the members
\* present and not null in the body as keys, each with the value supplied;
\* the stored values of the other fields of the book are unchanged.
C22_UpdatesAreThePresentFields ==
  (last.op = "UpdateBook" /\ last.calls # <<>>) =>
    LET id == last.calls[1].args[1]
        u  == last.calls[1].args[2]
    IN /\ last.calls[1].method = "Update"
       /\ DOMAIN u = Present
       /\ \A k \in Present : u[k] = last.req[1].body[k][1]
       /\ \A r \in last.pre.books :
            r.id = id =>
              \E s \in db.books :
                s.id = id /\ \A k \in Keys \ Present : s[k] = r[k]

\* UpdateBook answered 200 to a body with a null title and an author, for a
\* stored book with another author.
C22_Witness ==
  /\ last.op = "UpdateBook" /\ last.status = 200
  /\ DOMAIN last.req[1].body = {"title", "author"}
  /\ last.req[1].body["title"] = <<>>
  /\ Present = {"author"}
  /\ \E r \in last.pre.books :
       r.id = last.out[1].id /\ r.author # last.out[1].author


\* C30: the id CreateBook assigns is larger than every id assigned before,
\* and an assigned id whose book is gone stays gone: no handler step brings
\* a book back under it, so GetByID keeps failing with ErrRecordNotFound.
C30_IdsNeverReused ==
  [][/\ (last.op = "idle" /\ last'.op = "CreateBook" /\ last'.status = 201) =>
          \A i \in assigned : last'.out[1].id > i
     /\ \A i \in assigned :
          i \notin Ids(db.books) =>
            /\ i \notin Ids(db'.books)
            /\ GetByID(Healed(db'), i).err = ErrRecordNotFound]_vars

\* CreateBook answered 201 on a table emptied by DeleteBook: the new book
\* has an id larger than the deleted one's.
C30_Witness ==
  /\ last.op = "CreateBook" /\ last.status = 201
  /\ last.pre.books = {}
  /\ assigned = {1, 2}
  /\ Ids(db.books) = {2}


\* C21: a request is served only by a process whose InitDatabase succeeded
\* and whose SeedDatabase has returned, and a process whose InitDatabase
\* failed has exited without serving any.
C21_StartupOrder ==
  /\ last.op \in {"CreateBook", "GetAllBooks", "GetBookByID", "UpdateBook",
                  "DeleteBook", "RecommendBook"} => main.pc = "serving"
  /\ main.pc = "serving" => (main.initErr = Nil /\ main.seeded)
  /\ main.pc \in {"opened", "seeded"} => main.initErr = Nil
  /\ main.initErr # Nil => (main.pc = "exited" /\ ~main.seeded /\ last = Idle)

\* A request was served by a process whose SeedDatabase had returned an
\* error.
C21_Witness ==
  /\ last.op = "GetAllBooks"
  /\ main.pc = "serving"
  /\ main.seedErr # Nil


====
